---- MODULE Spec2Model ----
(***************************************************************************)
(* A model of investment.py: the amortizing Mortgage and the              *)
(* LeveragedProperty that owns it.                                        *)
(*                                                                         *)
(* Python's numbers are modelled as exact rationals [n |-> numerator,     *)
(* d |-> denominator] in lowest terms with d > 0, so every +, -, *, /,    *)
(* **, max, abs and comparison of the source is computed exactly.         *)
(* IEEE-754 rounding is not modelled.  A division by zero yields the      *)
(* value ZeroDivisionError, which the calling operation turns into a      *)
(* raised exception.                                                       *)
(***************************************************************************)
EXTENDS Integers, Sequences, FiniteSets, TLC

VARIABLES mortgage, property, config, last, payments, calls

vars == <<mortgage, property, config, last, payments, calls>>

(***************************************************************************)
(* Bounds of the model.                                                    *)
(***************************************************************************)
\* the number of method calls a behaviour makes on the two objects
MaxCalls == 4
\* the largest term_years a Mortgage is constructed with
MaxTerm == 2

(***************************************************************************)
(* Exact rational arithmetic.                                              *)
(***************************************************************************)
Abs(i) == IF i < 0 THEN -i ELSE i

RECURSIVE GCD(_, _)
GCD(a, b) == IF b = 0 THEN a ELSE GCD(b, a % b)

\* the rational n/d (d # 0) in lowest terms with a positive denominator
Frac(n, d) ==
    LET g == GCD(Abs(n), Abs(d))
        s == IF d < 0 THEN -1 ELSE 1
    IN  [n |-> s * (n \div g), d |-> Abs(d) \div g]

Zero == Frac(0, 1)
One == Frac(1, 1)

\* the outcome of a division by zero
ZeroDivisionError == [n |-> 0, d |-> 0]

RAdd(a, b) ==
    LET g == GCD(a.d, b.d)
    IN  Frac(a.n * (b.d \div g) + b.n * (a.d \div g), a.d * (b.d \div g))

RNeg(a) == [n |-> -a.n, d |-> a.d]

RSub(a, b) == RAdd(a, RNeg(b))

RMul(a, b) ==
    LET g1 == GCD(Abs(a.n), b.d)
        g2 == GCD(Abs(b.n), a.d)
    IN  Frac((a.n \div g1) * (b.n \div g2), (a.d \div g2) * (b.d \div g1))

RDiv(a, b) ==
    IF b.n = 0 THEN ZeroDivisionError
    ELSE RMul(a, Frac(b.d, b.n))

RLt(a, b) == RSub(a, b).n < 0
RLe(a, b) == RSub(a, b).n <= 0
RGt(a, b) == RLt(b, a)
RGe(a, b) == RLe(b, a)

RMax(a, b) == IF RLt(a, b) THEN b ELSE a

RAbs(a) == [n |-> Abs(a.n), d |-> a.d]

\* a ** k for an integer k >= 0
RECURSIVE RPow(_, _)
RPow(a, k) == IF k = 0 THEN One ELSE RMul(a, RPow(a, k - 1))

(***************************************************************************)
(* Mortgage                                                                *)
(***************************************************************************)
\* Mortgage.calculate_annual_payment: the amortization formula on the
\* CURRENT principal and the constructed term_years
calculate_annual_payment(m) ==
    LET r == m.interest_rate
        n == m.term_years
    IN  IF r = Zero THEN RDiv(m.principal, Frac(n, 1))
        ELSE LET numerator == RMul(r, RPow(RAdd(One, r), n))
                 denominator == RSub(RPow(RAdd(One, r), n), One)
                 quotient == RDiv(numerator, denominator)
             IN  IF quotient = ZeroDivisionError THEN ZeroDivisionError
                 ELSE RMul(m.principal, quotient)

\* a variant of paid_off that treats a balance of exactly 0 as still owing
paid_off_strict(m) == RLt(m.principal, Zero)

\* the guard of pay_year's early return
paid_off(m) == RLe(m.principal, Zero)

\* interest is charged on principal - offset, floored at 0
effective_principal(m) == RMax(Zero, RSub(m.principal, m.offset_balance))

interest_component(m) == RMul(effective_principal(m), m.interest_rate)

\* a variant of end_of_loan without the clamp
end_of_loan_unclamped(m, annual_payment, interest) ==
    [principal_component |-> RSub(annual_payment, interest),
     annual_payment |-> annual_payment]

\* the end-of-loan clamp: [principal_component, annual_payment] of the year
end_of_loan(m, annual_payment, interest) ==
    LET principal_component == RSub(annual_payment, interest)
    IN  IF RGt(principal_component, m.principal)
        THEN [principal_component |-> m.principal,
              annual_payment |-> RAdd(interest, m.principal)]
        ELSE [principal_component |-> principal_component,
              annual_payment |-> annual_payment]

\* Mortgage.pay_year: the returned triple, whether the call raised, and the
\* mortgage after the call
pay_year(m) ==
    IF paid_off(m)
    THEN [raised |-> FALSE, interest |-> Zero, principal_paid |-> Zero,
          total_payment |-> Zero, mortgage |-> m]
    ELSE LET annual_payment == calculate_annual_payment(m)
         IN  IF annual_payment = ZeroDivisionError
             THEN [raised |-> TRUE, interest |-> Zero, principal_paid |-> Zero,
                   total_payment |-> Zero, mortgage |-> m]
             ELSE LET interest == interest_component(m)
                      e == end_of_loan(m, annual_payment, interest)
                  IN  [raised |-> FALSE,
                       interest |-> interest,
                       principal_paid |-> e.principal_component,
                       total_payment |-> e.annual_payment,
                       mortgage |-> [m EXCEPT !.principal =
                                        RSub(m.principal, e.principal_component)]]

(***************************************************************************)
(* LeveragedProperty                                                       *)
(***************************************************************************)
\* LeveragedProperty.__init__: the equity set at construction
initial_equity(purchase_price, m) == RSub(purchase_price, m.principal)

\* a variant of tax_refund that drops the abs() of the loss
tax_refund_signed(taxable_income, c) ==
    IF RLt(taxable_income, Zero)
    THEN RMul(taxable_income, c.marginal_tax_rate)
    ELSE Zero

\* negative gearing: a paper loss earns a refund at the marginal rate
tax_refund(taxable_income, c) ==
    IF RLt(taxable_income, Zero)
    THEN RMul(RAbs(taxable_income), c.marginal_tax_rate)
    ELSE Zero

\* a paper profit is taxed at the marginal rate
tax_paid(taxable_income, c) ==
    IF RLt(taxable_income, Zero)
    THEN Zero
    ELSE RMul(taxable_income, c.marginal_tax_rate)

\* rent + refund - expenses - mortgage payment - tax paid
net_cash_flow(rental_income, refund, expenses, mortgage_payment, paid) ==
    RSub(RSub(RSub(RAdd(rental_income, refund), expenses), mortgage_payment), paid)

\* a variant of offset_after that discards the surplus
offset_after_discard(m, cash_flow) == m.offset_balance

\* a variant of offset_after that also draws a shortfall from the offset
offset_after_drawdown(m, cash_flow) == RAdd(m.offset_balance, cash_flow)

\* a strictly positive cash flow is banked in the offset account
offset_after(m, cash_flow) ==
    IF RGt(cash_flow, Zero)
    THEN RAdd(m.offset_balance, cash_flow)
    ELSE m.offset_balance

\* otherwise the investor pays its magnitude from salary
out_of_pocket(cash_flow) ==
    IF RGt(cash_flow, Zero) THEN Zero ELSE RAbs(cash_flow)

\* a variant of recalculate_equity that leaves the offset cash out
recalculate_equity_no_offset(value, m) == RSub(value, m.principal)

\* equity = asset + offset - debt
recalculate_equity(value, m) ==
    RSub(RAdd(value, m.offset_balance), m.principal)

\* LeveragedProperty.calculate_annual_return: the appreciation and the
\* property after the call
calculate_annual_return(p) ==
    LET appreciation == RMul(p.value, p.growth_rate)
    IN  [appreciation |-> appreciation,
         property |-> [p EXCEPT !.value = RAdd(p.value, appreciation)]]

\* the record of a call: what it was, what it computed and returned, and the
\* mortgage and the expenses as they stood before the call
NoCall(m, p) ==
    [op |-> "init", raised |-> FALSE, before |-> m,
     expenses_before |-> p.expenses,
     interest |-> Zero, principal_paid |-> Zero, total_payment |-> Zero,
     rental_income |-> Zero, taxable_income |-> Zero,
     tax_refund |-> Zero, tax_paid |-> Zero, net_cash_flow |-> Zero,
     returned |-> Zero]

\* apply_costs, step 6 and the equity recalculation: the property and the
\* mortgage after the call, given the call's record and the mortgage m2
\* after the cash flow was handled
apply_costs_equity(p, expenses, call, m2) ==
    [call |-> call,
     property |-> [p EXCEPT !.expenses = expenses,
                            !.equity = recalculate_equity(p.value, m2)],
     mortgage |-> m2]

\* apply_costs, step 6: the cash flow is banked or returned as out-of-pocket
apply_costs_handle(p, m, rental_income, expenses, py, taxable_income, refund, paid, cash_flow) ==
    apply_costs_equity(p, expenses,
        [op |-> "apply_costs", raised |-> FALSE, before |-> m,
         expenses_before |-> p.expenses,
         interest |-> py.interest,
         principal_paid |-> py.principal_paid,
         total_payment |-> py.total_payment,
         rental_income |-> rental_income,
         taxable_income |-> taxable_income,
         tax_refund |-> refund, tax_paid |-> paid,
         net_cash_flow |-> cash_flow,
         returned |-> out_of_pocket(cash_flow)],
        [py.mortgage EXCEPT
            !.offset_balance = offset_after(py.mortgage, cash_flow)])

\* apply_costs, steps 4 and 5: the tax logic and the cash flow
apply_costs_tax(p, m, c, rental_income, expenses, py, taxable_income) ==
    apply_costs_handle(p, m, rental_income, expenses, py, taxable_income,
        tax_refund(taxable_income, c), tax_paid(taxable_income, c),
        net_cash_flow(rental_income, tax_refund(taxable_income, c), expenses,
                      py.total_payment, tax_paid(taxable_income, c)))

\* apply_costs from the return of mortgage.pay_year() on
apply_costs_mortgage(p, m, c, rental_income, expenses, py) ==
    IF py.raised
    THEN \* the exception leaves after the expenses were inflated
         [call |-> [NoCall(m, p) EXCEPT !.op = "apply_costs", !.raised = TRUE,
                                        !.rental_income = rental_income],
          property |-> [p EXCEPT !.expenses = expenses],
          mortgage |-> m]
    ELSE apply_costs_tax(p, m, c, rental_income, expenses, py,
                         RSub(RSub(rental_income, py.interest), expenses))

\* LeveragedProperty.apply_costs: the call's locals, the property and the
\* mortgage after the call
apply_costs(p, m, c) ==
    apply_costs_mortgage(p, m, c,
        RMul(p.value, p.rental_yield),
        RMul(p.expenses, RAdd(One, c.inflation_rate)),
        pay_year(m))

(***************************************************************************)
(* The objects a behaviour starts from.  Nothing is validated at           *)
(* construction, so term_years = 0 and a negative principal are            *)
(* constructible.                                                          *)
(***************************************************************************)
Half == Frac(1, 2)

Principals == {Frac(-6, 1), Zero, Frac(12, 1)}
InterestRates == {Zero, Half}
TermYears == 0 .. MaxTerm
OffsetBalances == {Zero, Frac(4, 1)}

Mortgages ==
    [principal : Principals, interest_rate : InterestRates,
     term_years : TermYears, offset_balance : OffsetBalances]

PurchasePrices == {Frac(20, 1)}
GrowthRates == {Zero, Half}
RentalYields == {Zero, Half}
Expenses == {Frac(4, 1)}

Configs == [inflation_rate : {Zero, Half}, marginal_tax_rate : {Zero, Half}]

\* one pay_year() that returned, as kept in payments
Payment(before, py) ==
    [before |-> before, interest |-> py.interest,
     principal_paid |-> py.principal_paid, total_payment |-> py.total_payment]

Init ==
    /\ mortgage \in Mortgages
    /\ config \in Configs
    /\ \E price \in PurchasePrices, g \in GrowthRates,
          y \in RentalYields, e \in Expenses :
          property = [value |-> price, growth_rate |-> g, rental_yield |-> y,
                      expenses |-> e, equity |-> initial_equity(price, mortgage)]
    /\ last = NoCall(mortgage, property)
    /\ payments = << >>
    /\ calls = 0

\* a direct mortgage.pay_year() call
PayYear ==
    /\ calls < MaxCalls
    /\ LET py == pay_year(mortgage)
       IN  /\ mortgage' = py.mortgage
           /\ last' = [NoCall(mortgage, property) EXCEPT
                          !.op = "pay_year", !.raised = py.raised,
                          !.interest = py.interest,
                          !.principal_paid = py.principal_paid,
                          !.total_payment = py.total_payment]
           /\ payments' = IF py.raised THEN payments
                          ELSE Append(payments, Payment(mortgage, py))
    /\ calls' = calls + 1
    /\ UNCHANGED <<property, config>>

\* property.calculate_annual_return()
CalculateAnnualReturn ==
    /\ calls < MaxCalls
    /\ LET ret == calculate_annual_return(property)
       IN  /\ property' = ret.property
           /\ last' = [NoCall(mortgage, property) EXCEPT
                          !.op = "calculate_annual_return",
                          !.returned = ret.appreciation]
    /\ calls' = calls + 1
    /\ UNCHANGED <<mortgage, config, payments>>

\* property.apply_costs(), with the mortgage.pay_year() it makes
ApplyCosts ==
    /\ calls < MaxCalls
    /\ LET ac == apply_costs(property, mortgage, config)
       IN  /\ property' = ac.property
           /\ mortgage' = ac.mortgage
           /\ last' = ac.call
           /\ payments' = IF ac.call.raised THEN payments
                          ELSE Append(payments, Payment(mortgage, ac.call))
    /\ calls' = calls + 1
    /\ UNCHANGED config

Next == PayYear \/ CalculateAnnualReturn \/ ApplyCosts

Spec == Init /\ [][Next]_vars

(***************************************************************************)
(* Properties                                                              *)
(***************************************************************************)
\* the last call was op and it returned
Returned(op) == last.op = op /\ ~last.raised

\* the last call ran mortgage.pay_year() and it returned
PaidYear == last.op \in {"pay_year", "apply_costs"} /\ ~last.raised

\* pay_year() has run on an offset-free loan only
NoOffsetSoFar ==
    \A i \in 1 .. Len(payments) : payments[i].before.offset_balance = Zero

\* the principal components of all pay_year() calls so far, summed
SumPrincipalPaid ==
    LET sum[i \in 0 .. Len(payments)] ==
            IF i = 0 THEN Zero
            ELSE RAdd(sum[i - 1], payments[i].principal_paid)
    IN  sum[Len(payments)]

\* C1: a loan of principal P > 0 with no offset and term_years n >= 1 is paid
\* off by n pay_year() calls: the principal is then exactly 0 and the
\* principal components of the n calls sum to P.
C1_PaidOffAfterTerm ==
    ( /\ mortgage.term_years >= 1
      /\ Len(payments) = mortgage.term_years
      /\ RGt(payments[1].before.principal, Zero)
      /\ NoOffsetSoFar )
    => /\ mortgage.principal = Zero
       /\ SumPrincipalPaid = payments[1].before.principal

\* a payment that ended the loan (the final, possibly clamped, payment)
FinalPayment(i) == payments[i].principal_paid = payments[i].before.principal

\* C2: on an offset-free loan the total_payment of pay_year() is the same in
\* every year with principal > 0, the final payment apart, and at rate 0 the
\* principal component is the same in every year.
C2_ConstantPayment ==
    (mortgage.term_years >= 1 /\ NoOffsetSoFar)
    => \A i, j \in 1 .. Len(payments) :
          ( /\ RGt(payments[i].before.principal, Zero)
            /\ RGt(payments[j].before.principal, Zero)
            /\ ~FinalPayment(i) /\ ~FinalPayment(j) )
          => /\ payments[i].total_payment = payments[j].total_payment
             /\ mortgage.interest_rate = Zero
                => payments[i].principal_paid = payments[j].principal_paid

\* C3: with principal >= 0, offset_balance >= 0, rate >= 0 and term_years >= 1
\* every pay_year() call pays 0 <= principal_paid <= the principal before the
\* call, returns total_payment = interest_paid + principal_paid, and leaves a
\* principal that has not grown and is not negative.
C3_NeverOverpaid ==
    ( /\ PaidYear
      /\ mortgage.term_years >= 1
      /\ RGe(mortgage.interest_rate, Zero)
      /\ RGe(last.before.principal, Zero)
      /\ RGe(last.before.offset_balance, Zero) )
    => /\ RGe(last.principal_paid, Zero)
       /\ RLe(last.principal_paid, last.before.principal)
       /\ last.total_payment = RAdd(last.interest, last.principal_paid)
       /\ RAdd(mortgage.principal, last.principal_paid) = last.before.principal
       /\ RLe(mortgage.principal, last.before.principal)
       /\ RGe(mortgage.principal, Zero)

\* C3's case: a pay_year() whose principal component was clamped to the
\* remaining principal
C3_ClampedPayment ==
    /\ PaidYear
    /\ mortgage.term_years >= 1
    /\ RGt(last.before.principal, Zero)
    /\ RGe(last.before.offset_balance, Zero)
    /\ last.principal_paid = last.before.principal
    /\ RLt(last.total_payment, calculate_annual_payment(last.before))

\* C4: with principal <= 0 pay_year() returns (0, 0, 0) and leaves principal
\* and offset_balance as they were; apply_costs() in that state uses interest 0
\* and mortgage payment 0 and still computes the rent, inflates the expenses
\* and applies the tax.
C4_PaidOffTerminal ==
    (last.op \in {"pay_year", "apply_costs"} /\ RLe(last.before.principal, Zero))
    => /\ ~last.raised
       /\ last.interest = Zero
       /\ last.principal_paid = Zero
       /\ last.total_payment = Zero
       /\ mortgage.principal = last.before.principal
       /\ last.op = "pay_year"
          => mortgage.offset_balance = last.before.offset_balance
       /\ last.op = "apply_costs"
          => /\ last.rental_income = RMul(property.value, property.rental_yield)
             /\ property.expenses =
                   RMul(last.expenses_before, RAdd(One, config.inflation_rate))
             /\ last.taxable_income = RSub(last.rental_income, property.expenses)
             /\ RLt(last.taxable_income, Zero)
                => /\ last.tax_paid = Zero
                   /\ last.tax_refund = RMul(RNeg(last.taxable_income),
                                             config.marginal_tax_rate)
             /\ RGe(last.taxable_income, Zero)
                => /\ last.tax_refund = Zero
                   /\ last.tax_paid = RMul(last.taxable_income,
                                           config.marginal_tax_rate)
             /\ last.net_cash_flow =
                   RSub(RSub(RAdd(last.rental_income, last.tax_refund),
                             property.expenses), last.tax_paid)

\* C4's case: apply_costs() on a loan that was owing and has been paid off
C4_AppliedCostsPaidOff ==
    /\ Returned("apply_costs")
    /\ last.before.principal = Zero
    /\ Len(payments) >= 2
    /\ RGt(payments[1].before.principal, Zero)
    /\ RGt(last.tax_refund, Zero)
    /\ property.expenses # last.expenses_before

\* C5: after every apply_costs() call that returned,
\* equity = value + offset_balance - principal on the values after the call.
C5_EquityIdentity ==
    Returned("apply_costs")
    => RAdd(property.equity, mortgage.principal)
          = RAdd(property.value, mortgage.offset_balance)

\* C5's case: apply_costs() banked a surplus on a loan that is still owing
C5_EquityWithOffset ==
    /\ Returned("apply_costs")
    /\ RGt(last.net_cash_flow, Zero)
    /\ RGt(mortgage.offset_balance, Zero)
    /\ RGt(mortgage.principal, Zero)

\* C6: an apply_costs() call with net_cash_flow > 0 raises offset_balance by
\* exactly net_cash_flow, returns 0 out-of-pocket, and lowers principal by the
\* principal component of its pay_year() only.
C6_SurplusToOffset ==
    (Returned("apply_costs") /\ RGt(last.net_cash_flow, Zero))
    => /\ mortgage.offset_balance
             = RAdd(last.before.offset_balance, last.net_cash_flow)
       /\ last.returned = Zero
       /\ mortgage.principal = RSub(last.before.principal, last.principal_paid)

\* C6's case: a surplus year in which principal was also repaid
C6_SurplusYear ==
    /\ Returned("apply_costs")
    /\ RGt(last.net_cash_flow, Zero)
    /\ RGt(last.principal_paid, Zero)
    /\ RGt(last.before.offset_balance, Zero)

\* C7: an apply_costs() call with net_cash_flow <= 0 returns |net_cash_flow|
\* (>= 0) and leaves offset_balance as it was; no call of any kind lowers
\* offset_balance, which stays >= 0.
C7_ShortfallOutOfPocket ==
    /\ (Returned("apply_costs") /\ RLe(last.net_cash_flow, Zero))
       => /\ RAdd(last.returned, last.net_cash_flow) = Zero
          /\ RGe(last.returned, Zero)
          /\ mortgage.offset_balance = last.before.offset_balance
    /\ RGe(mortgage.offset_balance, last.before.offset_balance)
    /\ RGe(mortgage.offset_balance, Zero)

\* C7's case: a shortfall year while cash sits in the offset account
C7_ShortfallYear ==
    /\ Returned("apply_costs")
    /\ RLt(last.net_cash_flow, Zero)
    /\ RGt(last.before.offset_balance, Zero)

\* C8: a Mortgage that cannot be paid (term_years = 0, principal < 0) is
\* rejected at construction, so no pay_year() or apply_costs() call on a
\* constructed Mortgage ends in an error.
C8_NoCallRaises == ~last.raised

\* C9: in an apply_costs() call with marginal_tax_rate > 0, a taxable loss
\* gives tax_refund = |loss| * marginal_tax_rate > 0 and tax_paid = 0, and a
\* net_cash_flow strictly above the one a zero refund would give; a taxable
\* profit (>= 0) gives tax_refund = 0 and tax_paid = profit * marginal_tax_rate.
C9_NegativeGearing ==
    Returned("apply_costs")
    => /\ (RGt(config.marginal_tax_rate, Zero) /\ RLt(last.taxable_income, Zero))
          => /\ last.tax_refund = RMul(RNeg(last.taxable_income),
                                       config.marginal_tax_rate)
             /\ RGt(last.tax_refund, Zero)
             /\ last.tax_paid = Zero
             /\ RGt(last.net_cash_flow,
                    RSub(RSub(RSub(last.rental_income, property.expenses),
                              last.total_payment), last.tax_paid))
       /\ RGe(last.taxable_income, Zero)
          => /\ last.tax_refund = Zero
             /\ last.tax_paid = RMul(last.taxable_income, config.marginal_tax_rate)

\* C9's case: a negatively geared year with interest to deduct
C9_LossYear ==
    /\ Returned("apply_costs")
    /\ RGt(config.marginal_tax_rate, Zero)
    /\ RLt(last.taxable_income, Zero)
    /\ RGt(last.interest, Zero)

\* C10: from construction on, before any yearly operation,
\* equity = value + offset_balance - principal, for a LeveragedProperty built
\* on any valid Mortgage (term_years >= 1, principal >= 0).
C10_InitialEquity ==
    ( /\ last.op = "init"
      /\ mortgage.term_years >= 1
      /\ RGe(mortgage.principal, Zero) )
    => RAdd(property.equity, mortgage.principal)
          = RAdd(property.value, mortgage.offset_balance)

====
